---- MODULE Spec2Model ----
(***************************************************************************)
(* Two-leg arbitrage trade execution of crypto-arbitrage-bot.              *)
(*                                                                         *)
(* The dashboard (app/page.tsx, and its variant unnamed/part_001) keeps a  *)
(* list of Trade records and posts each execution attempt to the           *)
(* execute-trade route (app/api/execute-trade/route.ts, and its variant    *)
(* with a pre-trade balance check in unnamed/part_002, lines 1-1043).      *)
(* The route places a buy order, waits, places a sell order, and answers   *)
(* with one result that the dashboard applies to its list.                 *)
(*                                                                         *)
(* Every await of the code is a separate step, so that concurrent          *)
(* executions interleave exactly where the code can be suspended.          *)
(***************************************************************************)
EXTENDS Integers, Sequences, FiniteSets, TLC

\* ---------------------------------------------------------------- bounds
\* number of execution attempts (calls of executeTrade) in one behaviour
MaxTrades == 2
\* largest USDT balance a buy order is sized against
MaxBalance == 20
\* last reading of the dashboard clock (Date.now())
MaxClock == 2

Slots == 1..MaxTrades

\* ------------------------------------------------------ program constants
\* minimum USDT balance required on the buy venue
MIN_BALANCE == 1
\* share of the balance a buy may use: 0.9, kept as the fraction 9/10
BALANCE_FRACTION_NUM == 9
BALANCE_FRACTION_DEN == 10

\* prices are whole numbers of 0.0001 USDT, the size of MIN_PRICE_DIFF
PriceUnitsPerUSDT == 10000

\* the constants of the prices route: profit window 0.5% .. 50% (the lower
\* end kept in tenths of a percent), smallest price difference 0.0001 USDT,
\* smallest net profit 0.01 USDT (both in price units), fee 0.001 per leg
\* (in thousandths), price cap 5 USDT, length of the answered list
MIN_PROFIT_PERCENT_TENTHS == 5
MAX_PROFIT_PERCENT == 50
MIN_PRICE_DIFF == 1
MIN_NET_PROFIT == 100
FEE_THOUSANDTHS == 1
PRICE_CAP_USDT == 5
LIST_LIMIT == 50

Venues == {"OKX", "KuCoin"}

\* inputs: trade sizes produced by the amount table, balances a venue reports
Amounts == {4, 8}
BalanceValues == {0, 5}

DashboardVariants == {"page_tsx", "part_001"}
RouteVariants == {"route_ts", "part_002"}

\* what a venue (or the transport to it) can do with one order request
VenueOutcomes ==
  {"network_error", "timeout", "http_error", "http_unparsable", "unparsable",
   "empty", "api_error", "missing_order_id", "success"}

\* ------------------------------------------------------- order results
\* error strings are kept as tuples of tags; <<>> is JavaScript's null
NoError == <<>>

NotCalled == [success |-> FALSE, orderId |-> FALSE, errorType |-> "none", error |-> NoError]

Failure(tag) == [success |-> FALSE, orderId |-> FALSE, errorType |-> tag, error |-> <<tag>>]

Success(hasId) == [success |-> TRUE, orderId |-> hasId, errorType |-> "none", error |-> NoError]

\* route.ts: success is response.ok && result.code === successCode; the order
\* id is copied but not checked; every exception (fetch rejects, the body is
\* not JSON, the body is null) lands in the one catch as a "Network Error".
SimpleOrderResult(outcome) ==
  CASE outcome = "success"          -> Success(TRUE)
    [] outcome = "missing_order_id" -> Success(FALSE)
    [] outcome = "api_error"        -> Failure("exchange_error")
    [] outcome = "http_error"       -> Failure("exchange_error")
    [] OTHER                        -> Failure("network_error")

\* part_002: the layered checks after fetch returned, in the code's order:
\* JSON.parse, response.ok, empty result, venue code, order id.
DetailedOrderResult(outcome) ==
  CASE outcome = "network_error"    -> Failure("network_error")
    [] outcome = "timeout"          -> Failure("timeout")
    [] outcome = "http_unparsable"  -> Failure("json_parse_error")
    [] outcome = "unparsable"       -> Failure("json_parse_error")
    [] outcome = "http_error"       -> Failure("http_error")
    [] outcome = "empty"            -> Failure("empty_response")
    [] outcome = "api_error"        -> Failure("api_error")
    [] outcome = "missing_order_id" -> Failure("missing_order_id")
    [] OTHER                        -> Success(TRUE)

\* Math.floor((availableBalance * 0.9) / amount) * amount
MaxAmount(availableBalance, amount) ==
  ((availableBalance * BALANCE_FRACTION_NUM) \div (BALANCE_FRACTION_DEN * amount)) * amount

\* adjustedAmount if the order were cut down to the whole USDT that 90% of
\* the balance pays for
AdjustedAmountCapped(availableBalance, amount) ==
  IF MaxAmount(availableBalance, amount) < amount
    THEN (availableBalance * BALANCE_FRACTION_NUM) \div BALANCE_FRACTION_DEN
    ELSE amount

\* the size a buy order is written with (adjustedAmount)
AdjustedAmount(availableBalance, amount) ==
  IF MaxAmount(availableBalance, amount) < amount
    THEN MaxAmount(availableBalance, amount)
    ELSE amount

\* part_002, the checks of executeOKXOrder / executeKuCoinOrder that precede
\* the request: "go" when the order is sent, else the failure returned.
PreDispatch(side, amount, hasCreds, availableBalance) ==
  IF ~hasCreds THEN Failure("missing_credentials")
  ELSE IF side = "buy" /\ availableBalance < MIN_BALANCE THEN Failure("insufficient_balance")
  ELSE IF side = "buy" /\ AdjustedAmount(availableBalance, amount) <= 0
    THEN Failure("insufficient_balance")
  ELSE NotCalled

\* sellResult when the buy failed
SkippedSell(variant, buy) ==
  [success |-> FALSE, orderId |-> FALSE, errorType |-> "none",
   error |-> IF variant = "part_002" THEN <<"buy_order_failed">> \o buy.error
                                     ELSE <<"buy_order_failed">>]

\* ------------------------------------------------------------ credentials
\* the three environment variables of one venue, as one POST reads them
CredStates == {"complete", "apiKey_missing", "secretKey_missing", "passphrase_missing"}

\* route.ts signs without checking: createHmac throws on an undefined secret
\* key, and createKuCoinPassphraseSignature on an undefined passphrase; an
\* undefined api key (or OKX passphrase) only becomes a header value.
CanSign(venue, cred) ==
  /\ cred # "secretKey_missing"
  /\ ~(venue = "KuCoin" /\ cred = "passphrase_missing")

\* part_002: if (!apiKey || !secretKey || !passphrase)
Complete(cred) == cred = "complete"

\* a venue accepts an order only from a request with valid credentials
OutcomesFor(variant, cred) ==
  {o \in VenueOutcomes :
     /\ (variant = "route_ts" => o # "timeout")
     /\ (cred # "complete" => o \notin {"success", "missing_order_id"})}

\* --------------------------------------------------------------- balances
\* one venue's entry in the answer of /api/balances
BalanceEntries ==
  {[success |-> FALSE, USDT |-> 0]} \cup {[success |-> TRUE, USDT |-> b] : b \in BalanceValues}

\* the balance taken from an entry if a failed query were answered from the
\* last balance known
ExtractBalanceStale(entry) == IF entry.success THEN entry.USDT ELSE MaxBalance

\* balanceResult.okx.success ? (balanceResult.okx.balances.USDT || 0) : 0
ExtractBalance(entry) == IF entry.success THEN entry.USDT ELSE 0

\* --------------------------------------------------------------- responses
NoResponse ==
  [httpStatus |-> 0, success |-> FALSE, hasFlags |-> FALSE, buyExecuted |-> FALSE,
   sellExecuted |-> FALSE, hasErrors |-> FALSE, errors |-> [buy |-> NoError, sell |-> NoError],
   errorType |-> "none"]

\* the early returns of part_002: success: false, error, details.errorType;
\* no buyExecuted, sellExecuted or errors field
Rejection(status, tag) ==
  [httpStatus |-> status, success |-> FALSE, hasFlags |-> FALSE, buyExecuted |-> FALSE,
   sellExecuted |-> FALSE, hasErrors |-> FALSE, errors |-> [buy |-> NoError, sell |-> NoError],
   errorType |-> tag]

\* the catch of POST: status 500, both flags false, no errors field
UnexpectedError ==
  [httpStatus |-> 500, success |-> FALSE, hasFlags |-> TRUE, buyExecuted |-> FALSE,
   sellExecuted |-> FALSE, hasErrors |-> FALSE, errors |-> [buy |-> NoError, sell |-> NoError],
   errorType |-> "unexpected_error"]

\* variant of TradeResponse with the two executed flags exchanged
TradeResponseSwapped(buy, sell) ==
  [httpStatus |-> 200, success |-> buy.success /\ sell.success, hasFlags |-> TRUE,
   buyExecuted |-> sell.success, sellExecuted |-> buy.success, hasErrors |-> TRUE,
   errors |-> [buy |-> buy.error, sell |-> sell.error], errorType |-> "none"]

\* the response assembled from the two order results
TradeResponse(buy, sell) ==
  [httpStatus |-> 200, success |-> buy.success /\ sell.success, hasFlags |-> TRUE,
   buyExecuted |-> buy.success, sellExecuted |-> sell.success, hasErrors |-> TRUE,
   errors |-> [buy |-> buy.error, sell |-> sell.error], errorType |-> "none"]

\* ------------------------------------------------------------------ state
VARIABLES
  dashboard,   \* which dashboard variant runs
  route,       \* which execute-trade variant serves
  now,         \* Date.now() of the dashboard
  trades,      \* the dashboard's Trade list, newest first
  dpc,         \* per attempt: where executeTrade stands
  tradeId,     \* per attempt: the tradeId local of executeTrade
  req,         \* per attempt: the body posted to execute-trade
  spc,         \* per attempt: where POST stands
  env,         \* per attempt: the credentials POST read from process.env
  buyResult,   \* per attempt: the buyResult local of POST
  calls,       \* per attempt: the outbound calls of the running POST, in order
  response,    \* per attempt: the response on its way to the dashboard
  refreshed,   \* per attempt: whether fetchBalances ran after the attempt
  sizing,      \* one buy order on its way through the sizing of the order function
  scanner,     \* which variant of the prices route serves
  feeds,       \* the ticker data the two venues answer a scan with
  scan,        \* the answer of the prices route
  rescan,      \* the answer of the prices route to a second GET on the same data
  lookup,      \* two prices on their way through a trade-amount table
  balanceQuery,\* one venue's answer on its way through the balance function
  audit,       \* two order calls that differ in their secrets only
  funds,       \* the USDT each venue holds for the bot, and the buy orders it filled
  auto         \* the dashboard's auto-trade switch and the coins it shows

\* the state of a trade execution and of the dashboard
tradeVars == <<dashboard, route, now, trades, dpc, tradeId, req, spc, env, buyResult,
               calls, response, refreshed>>

\* the state of the calculations that run apart from a trade execution
calcVars == <<sizing, scanner, feeds, scan, rescan, lookup, balanceQuery, audit, funds, auto>>

vars == <<dashboard, route, now, trades, dpc, tradeId, req, spc, env, buyResult,
          calls, response, refreshed, sizing, scanner, feeds, scan, rescan, lookup,
          balanceQuery, audit, funds, auto>>

NoId == <<-1, 0>>
NoReq == [symbol |-> "none", buyExchange |-> "none", sellExchange |-> "none", amount |-> 0]
NoEnv == [v \in Venues |-> "complete"]
\* no buy order is being sized, no scan has been asked for
NoSizing == [price |-> 0, amount |-> 0, balance |-> 0, stage |-> "none", size |-> 0]
NoFeeds == <<>>
NoLookup == [table |-> "none", p1 |-> 0, p2 |-> 0, a1 |-> 0, a2 |-> 0]
NoBalanceQuery ==
  [venue |-> "none", creds |-> "none", answer |-> "none", availBal |-> 0, stage |-> "none",
   success |-> FALSE, USDT |-> 0, errorType |-> "none"]
NoAudit ==
  [venue |-> "none", side |-> "none", outcome |-> "none", secrets |-> <<>>, stage |-> "none",
   sent |-> <<>>, logs |-> <<>>, results |-> <<>>]
\* no venue account is tracked, auto-trade is off with no coins shown
NoFunds == [avail |-> [v \in Venues |-> 0], filled |-> {}]
NoAuto == [enabled |-> FALSE, coins |-> <<>>]
NoScan ==
  [status |-> 0, coins |-> <<>>, okxAvailable |-> FALSE, kucoinAvailable |-> FALSE,
   okxCoinsCount |-> 0, kucoinCoinsCount |-> 0]

Init ==
  /\ dashboard \in DashboardVariants
  /\ route \in RouteVariants
  /\ now = 0
  /\ trades = <<>>
  /\ dpc = [s \in Slots |-> "idle"]
  /\ tradeId = [s \in Slots |-> NoId]
  /\ req = [s \in Slots |-> NoReq]
  /\ spc = [s \in Slots |-> "none"]
  /\ env = [s \in Slots |-> NoEnv]
  /\ buyResult = [s \in Slots |-> NotCalled]
  /\ calls = [s \in Slots |-> <<>>]
  /\ response = [s \in Slots |-> NoResponse]
  /\ refreshed = [s \in Slots |-> FALSE]
  /\ sizing = NoSizing
  /\ scanner = "filtering"
  /\ feeds = NoFeeds
  /\ scan = NoScan
  /\ rescan = NoScan
  /\ lookup = NoLookup
  /\ balanceQuery = NoBalanceQuery
  /\ audit = NoAudit
  /\ funds = NoFunds
  /\ auto = NoAuto

\* ------------------------------------------------------------- dashboard
\* page.tsx: `trade_${Date.now()}_${Math.random().toString(36).substr(2, 9)}`
\* part_001: Date.now().toString()
\* An id is kept as <<clock reading, random suffix>>, with suffix 0 where the
\* id has none.
NewTradeId(variant, clock, suffix) ==
  IF variant = "page_tsx" THEN <<clock, suffix>> ELSE <<clock, 0>>

\* the suffix Math.random() yields for an attempt: the draws of different
\* attempts are taken to differ
RandomSuffix(s) == s

\* newTrade: status pending, neither leg executed
NewTrade(id) ==
  [id |-> id, status |-> "pending", buyExecuted |-> FALSE, sellExecuted |-> FALSE,
   flagsDefined |-> TRUE, errors |-> [buy |-> NoError, sell |-> NoError]]

\* variant of ApplyResult that calls a Trade completed once its buy executed
ApplyResultBuyOnly(variant, trade, result) ==
  [trade EXCEPT
     !.buyExecuted = result.hasFlags /\ result.buyExecuted,
     !.sellExecuted = result.hasFlags /\ result.sellExecuted,
     !.flagsDefined = result.hasFlags \/ variant = "part_001",
     !.status = IF result.hasFlags /\ result.buyExecuted THEN "completed" ELSE "failed",
     !.errors = IF result.hasErrors THEN result.errors
                                    ELSE [buy |-> NoError, sell |-> NoError]]

\* the object a Trade is replaced by when the result of execute-trade arrives
ApplyResult(variant, trade, result) ==
  IF variant = "page_tsx"
    THEN [trade EXCEPT
            !.buyExecuted = result.hasFlags /\ result.buyExecuted,
            !.sellExecuted = result.hasFlags /\ result.sellExecuted,
            !.flagsDefined = result.hasFlags,
            !.status = IF result.hasFlags /\ result.buyExecuted /\ result.sellExecuted
                         THEN "completed" ELSE "failed",
            !.errors = IF result.hasErrors THEN result.errors
                                           ELSE [buy |-> NoError, sell |-> NoError]]
    ELSE [trade EXCEPT
            !.status = IF result.success THEN "completed" ELSE "failed",
            !.buyExecuted = result.hasFlags /\ result.buyExecuted,
            !.sellExecuted = result.hasFlags /\ result.sellExecuted,
            !.flagsDefined = TRUE,
            !.errors = IF result.hasErrors THEN result.errors
                                           ELSE [buy |-> NoError, sell |-> NoError]]

\* the object a Trade is replaced by in the catch of executeTrade
ApplyError(variant, trade) ==
  IF variant = "page_tsx"
    THEN [trade EXCEPT !.status = "failed",
                       !.errors = [buy |-> <<"Network error">>, sell |-> <<"Network error">>]]
    ELSE [trade EXCEPT !.status = "failed",
                       !.errors = [buy |-> <<"error.message">>, sell |-> NoError]]

\* the id the catch of executeTrade looks for: page.tsx compares with tradeId,
\* part_001 with Date.now().toString() read again inside the catch
CatchKey(variant, id, clock) ==
  IF variant = "page_tsx" THEN id ELSE <<clock, 0>>

\* the symbol of the coin the dashboard trades
TradedSymbol == "X"

\* variant of StartTrade that issues the request without recording the Trade
StartTradeUnrecorded(s, buyEx, sellEx, amount) ==
  /\ dpc[s] = "idle"
  /\ \A p \in Slots : p < s => dpc[p] # "idle"
  /\ now < MaxClock
  /\ buyEx # sellEx
  /\ tradeId' = [tradeId EXCEPT ![s] = NewTradeId(dashboard, now, RandomSuffix(s))]
  /\ req' = [req EXCEPT ![s] = [symbol |-> TradedSymbol, buyExchange |-> buyEx,
                                 sellExchange |-> sellEx, amount |-> amount]]
  /\ dpc' = [dpc EXCEPT ![s] = "awaiting"]
  /\ spc' = [spc EXCEPT ![s] = "received"]
  /\ UNCHANGED calcVars
  /\ UNCHANGED <<dashboard, route, now, trades, env, buyResult, calls, response, refreshed>>

\* executeTrade up to its first await: the pending Trade is put in front of
\* the list and the request to execute-trade is issued.
StartTrade(s, buyEx, sellEx, amount) ==
  /\ dpc[s] = "idle"
  /\ \A p \in Slots : p < s => dpc[p] # "idle"
  /\ now < MaxClock
  /\ buyEx # sellEx
  /\ LET id == NewTradeId(dashboard, now, RandomSuffix(s)) IN
       /\ tradeId' = [tradeId EXCEPT ![s] = id]
       /\ trades' = <<NewTrade(id)>> \o trades
  /\ req' = [req EXCEPT ![s] = [symbol |-> TradedSymbol, buyExchange |-> buyEx,
                                 sellExchange |-> sellEx, amount |-> amount]]
  /\ dpc' = [dpc EXCEPT ![s] = "awaiting"]
  /\ spc' = [spc EXCEPT ![s] = "received"]
  /\ UNCHANGED calcVars
  /\ UNCHANGED <<dashboard, route, now, env, buyResult, calls, response, refreshed>>

\* executeTrade after `await response.json()`: the result is applied to the
\* Trade list and the balances are refreshed (page.tsx: only on success).
ResultArrives(s) ==
  /\ dpc[s] = "awaiting"
  /\ spc[s] = "responded"
  /\ LET result == response[s] IN
       \* prev.map((trade) => trade.id === tradeId ? {...} : trade)
       /\ trades' = [i \in 1..Len(trades) |->
                       IF trades[i].id = tradeId[s]
                       THEN ApplyResult(dashboard, trades[i], result)
                       ELSE trades[i]]
       /\ refreshed' = [refreshed EXCEPT ![s] = (dashboard = "part_001") \/ result.success]
  /\ dpc' = [dpc EXCEPT ![s] = "done"]
  /\ tradeId' = [tradeId EXCEPT ![s] = NoId]
  /\ spc' = [spc EXCEPT ![s] = "closed"]
  /\ response' = [response EXCEPT ![s] = NoResponse]
  /\ calls' = [calls EXCEPT ![s] = <<>>]
  /\ UNCHANGED calcVars
  /\ UNCHANGED <<dashboard, route, now, req, env, buyResult>>

\* the fetch of execute-trade rejects, or its body is not JSON: the catch
\* of executeTrade runs. The route itself goes on if it was reached.
RequestThrows(s) ==
  /\ dpc[s] = "awaiting"
  /\ LET key == CatchKey(dashboard, tradeId[s], now) IN
       \* prev.map((trade) => trade.id === key ? {...} : trade)
       trades' = [i \in 1..Len(trades) |->
                    IF trades[i].id = key
                    THEN ApplyError(dashboard, trades[i])
                    ELSE trades[i]]
  /\ dpc' = [dpc EXCEPT ![s] = "done"]
  /\ tradeId' = [tradeId EXCEPT ![s] = NoId]
  /\ UNCHANGED calcVars
  /\ UNCHANGED <<dashboard, route, now, req, spc, env, buyResult, calls, response, refreshed>>

\* a response nobody waits for any more is dropped with its connection
ResponseLost(s) ==
  /\ dpc[s] = "done"
  /\ spc[s] = "responded"
  /\ spc' = [spc EXCEPT ![s] = "closed"]
  /\ response' = [response EXCEPT ![s] = NoResponse]
  /\ calls' = [calls EXCEPT ![s] = <<>>]
  /\ UNCHANGED calcVars
  /\ UNCHANGED <<dashboard, route, now, trades, dpc, tradeId, req, env, buyResult, refreshed>>

\* the dashboard clock moves on
Tick ==
  /\ now < MaxClock
  /\ now' = now + 1
  /\ UNCHANGED calcVars
  /\ UNCHANGED <<dashboard, route, trades, dpc, tradeId, req, spc, env, buyResult,
                 calls, response, refreshed>>

\* ----------------------------------------------------------- execute-trade
\* one outbound call event of a running POST
CallEvent(call, phase, venue, size, outcome, balance) ==
  [call |-> call, phase |-> phase, venue |-> venue, size |-> size,
   outcome |-> outcome, balance |-> balance]

Sent(call, venue, size) == CallEvent(call, "sent", venue, size, "none", 0)

Returned(call, venue, outcome, balance) == CallEvent(call, "returned", venue, 0, outcome, balance)

\* the parameter checks at the head of POST in part_002; "" is a symbol or
\* exchange that is empty or missing, 0 an amount that is zero
ValidRequest(r) ==
  /\ r.symbol # ""
  /\ r.buyExchange # ""
  /\ r.sellExchange # ""
  /\ r.amount # 0
  /\ r.amount > 0
  /\ r.buyExchange \in Venues
  /\ r.sellExchange \in Venues

\* the venues whose credentials the request needs
Involved(r) == {r.buyExchange, r.sellExchange}

\* if (exchange === "OKX") executeOKXOrder(...) else executeKuCoinOrder(...)
Dispatched(exchange) == IF exchange = "OKX" THEN "OKX" ELSE "KuCoin"

\* the bodies a client of execute-trade can post: symbol and exchanges may be
\* empty or missing (""), the exchange may be one the bot does not know, the
\* amount may be zero or negative
RequestBodies ==
  [symbol : {"", "X"}, buyExchange : {"", "OKX", "KuCoin", "Binance"},
   sellExchange : {"", "OKX", "KuCoin", "Binance"}, amount : {-4, 0, 4}]

\* a client other than the dashboard posts a body to execute-trade
PostDirect(s, body) ==
  /\ dpc[s] = "idle"
  /\ spc[s] = "none"
  /\ \A p \in Slots : p < s => dpc[p] # "idle"
  /\ dpc' = [dpc EXCEPT ![s] = "external"]
  /\ req' = [req EXCEPT ![s] = body]
  /\ spc' = [spc EXCEPT ![s] = "received"]
  /\ UNCHANGED calcVars
  /\ UNCHANGED <<dashboard, route, now, trades, tradeId, env, buyResult, calls, response,
                 refreshed>>

\* return NextResponse.json(...): the locals of POST are gone
Respond(s, r) ==
  /\ response' = [response EXCEPT ![s] = r]
  /\ spc' = [spc EXCEPT ![s] = "responded"]
  /\ env' = [env EXCEPT ![s] = NoEnv]
  /\ buyResult' = [buyResult EXCEPT ![s] = NotCalled]
  /\ req' = [req EXCEPT ![s] = NoReq]

\* POST is suspended at its next await
Suspend(s, at, e, buy) ==
  /\ spc' = [spc EXCEPT ![s] = at]
  /\ env' = [env EXCEPT ![s] = e]
  /\ buyResult' = [buyResult EXCEPT ![s] = buy]
  /\ UNCHANGED <<response, req>>

\* what the order function returns without sending anything, or NotCalled
\* when it goes on to send the order
BeforeSend(variant, side, venue, amount, cred, availableBalance) ==
  IF variant = "part_002"
    THEN PreDispatch(side, amount, Complete(cred), availableBalance)
    ELSE IF CanSign(venue, cred) THEN NotCalled ELSE Failure("network_error")

\* the size written into the order if the balance adjustment were applied
\* to sell orders as well
OrderSizeAdjustsBothSides(variant, side, amount, availableBalance) ==
  IF variant = "part_002" THEN AdjustedAmount(availableBalance, amount) ELSE amount

\* the size written into the order: sz / size
OrderSize(variant, side, amount, availableBalance) ==
  IF variant = "part_002" /\ side = "buy" THEN AdjustedAmount(availableBalance, amount) ELSE amount

\* the result an order function makes of what the venue did
OrderResult(variant, outcome) ==
  IF variant = "part_002" THEN DetailedOrderResult(outcome) ELSE SimpleOrderResult(outcome)

\* the buy leg of POST up to its await: the order function either returns at
\* once (and POST answers with the sell leg skipped) or sends the buy order
BuyLeg(s, e, availableBalance, log) ==
  LET r == req[s]
      early == BeforeSend(route, "buy", Dispatched(r.buyExchange), r.amount, e[Dispatched(r.buyExchange)], availableBalance)
  IN IF early # NotCalled
       THEN /\ Respond(s, TradeResponse(early, SkippedSell(route, early)))
            /\ calls' = [calls EXCEPT ![s] = log]
       ELSE /\ Suspend(s, "buy", e, NotCalled)
            /\ calls' = [calls EXCEPT ![s] =
                 Append(log, Sent("buy", Dispatched(r.buyExchange),
                                  OrderSize(route, "buy", r.amount, availableBalance)))]

\* variant of Receive that does not await the balance query before the buy leg
ReceiveWithoutAwait(s, okxCred, kucoinCred) ==
  /\ spc[s] = "received"
  /\ LET e == [v \in Venues |-> IF v = "OKX" THEN okxCred ELSE kucoinCred] IN
       IF route = "route_ts"
         THEN BuyLeg(s, e, 0, calls[s])
         ELSE \E b \in BalanceValues :
                BuyLeg(s, e, b, Append(calls[s], Sent("balance", "both", 0)))
  /\ UNCHANGED calcVars
  /\ UNCHANGED <<dashboard, route, now, trades, dpc, tradeId, refreshed>>

\* POST from its start to its first await. route.ts goes straight to the buy
\* leg; part_002 validates, checks the credentials and asks for the balances.
Receive(s, okxCred, kucoinCred) ==
  /\ spc[s] = "received"
  /\ LET e == [v \in Venues |-> IF v = "OKX" THEN okxCred ELSE kucoinCred] IN
       IF route = "route_ts"
         THEN BuyLeg(s, e, 0, calls[s])
         ELSE IF ~ValidRequest(req[s])
           THEN /\ Respond(s, Rejection(400, "invalid_request"))
                /\ UNCHANGED calls
         ELSE IF \E v \in Involved(req[s]) : ~Complete(e[v])
           THEN /\ Respond(s, Rejection(500, "missing_credentials"))
                /\ UNCHANGED calls
         ELSE /\ Suspend(s, "balance", e, NotCalled)
              /\ calls' = [calls EXCEPT ![s] = Append(@, Sent("balance", "both", 0))]
  /\ UNCHANGED calcVars
  /\ UNCHANGED <<dashboard, route, now, trades, dpc, tradeId, refreshed>>

\* what `await fetch('/api/balances')...` can evaluate to: the answer of the
\* balances route, or the object of the .catch when the fetch or its JSON fails
FailedBalanceFetch ==
  [okx |-> [success |-> FALSE, USDT |-> 0], kucoin |-> [success |-> FALSE, USDT |-> 0]]

BalanceAnswers == {[okx |-> a, kucoin |-> b] : a \in BalanceEntries, b \in BalanceEntries}

\* part_002 after the balance query: the floor check, then the buy leg
BalanceReturns(s, balanceResult) ==
  /\ spc[s] = "balance"
  /\ LET okxBalance == ExtractBalance(balanceResult.okx)
         kucoinBalance == ExtractBalance(balanceResult.kucoin)
         buyBalance == IF req[s].buyExchange = "OKX" THEN okxBalance ELSE kucoinBalance
         buyEntry == IF req[s].buyExchange = "OKX" THEN balanceResult.okx
                                                   ELSE balanceResult.kucoin
         log == Append(calls[s],
                       Returned("balance", "both",
                                IF buyEntry.success THEN "answered" ELSE "failed", buyBalance))
     IN IF buyBalance < MIN_BALANCE
          THEN /\ Respond(s, Rejection(400, "insufficient_balance"))
               /\ calls' = [calls EXCEPT ![s] = log]
          ELSE BuyLeg(s, env[s], buyBalance, log)
  /\ UNCHANGED calcVars
  /\ UNCHANGED <<dashboard, route, now, trades, dpc, tradeId, refreshed>>

\* part_002: the balance answer is JSON without okx / kucoin entries; reading
\* it throws and the catch of POST answers
BalanceMalformed(s) ==
  /\ spc[s] = "balance"
  /\ Respond(s, UnexpectedError)
  /\ calls' = [calls EXCEPT ![s] = Append(@, Returned("balance", "both", "malformed", 0))]
  /\ UNCHANGED calcVars
  /\ UNCHANGED <<dashboard, route, now, trades, dpc, tradeId, refreshed>>

\* variant of BuyReturns that sends the buy order again when it failed
BuyReturnsRetry(s, outcome) ==
  /\ spc[s] = "buy"
  /\ outcome \in OutcomesFor(route, env[s][Dispatched(req[s].buyExchange)])
  /\ LET buy == OrderResult(route, outcome) IN
       IF buy.success
         THEN /\ Suspend(s, "settle", env[s], buy)
              /\ calls' = [calls EXCEPT ![s] =
                   Append(@, Returned("buy", Dispatched(req[s].buyExchange), outcome, 0))]
         ELSE /\ Suspend(s, "buy", env[s], NotCalled)
              /\ calls' = [calls EXCEPT ![s] =
                   Append(Append(@, Returned("buy", Dispatched(req[s].buyExchange), outcome, 0)),
                          Sent("buy", Dispatched(req[s].buyExchange), req[s].amount))]
  /\ UNCHANGED calcVars
  /\ UNCHANGED <<dashboard, route, now, trades, dpc, tradeId, refreshed>>

\* variant of BuyReturns that goes on to the sell leg as soon as the buy
\* succeeded, without the 2000 ms timer
BuyReturnsSellsAtOnce(s, outcome) ==
  /\ spc[s] = "buy"
  /\ outcome \in OutcomesFor(route, env[s][Dispatched(req[s].buyExchange)])
  /\ LET buy == OrderResult(route, outcome)
         r == req[s]
         log == Append(calls[s], Returned("buy", Dispatched(r.buyExchange), outcome, 0))
         early == BeforeSend(route, "sell", Dispatched(r.sellExchange), r.amount,
                             env[s][Dispatched(r.sellExchange)], 0)
     IN IF ~buy.success
          THEN /\ Respond(s, TradeResponse(buy, SkippedSell(route, buy)))
               /\ calls' = [calls EXCEPT ![s] = log]
          ELSE IF early # NotCalled
            THEN /\ Respond(s, TradeResponse(buy, early))
                 /\ calls' = [calls EXCEPT ![s] = log]
            ELSE /\ Suspend(s, "sell", env[s], buy)
                 /\ calls' = [calls EXCEPT ![s] =
                      Append(log, Sent("sell", Dispatched(r.sellExchange),
                                       OrderSize(route, "sell", r.amount, 0)))]
  /\ UNCHANGED calcVars
  /\ UNCHANGED <<dashboard, route, now, trades, dpc, tradeId, refreshed>>

\* the buy order function returns: on failure POST answers with the sell leg
\* skipped, on success it starts the 2000 ms timer
BuyReturns(s, outcome) ==
  /\ spc[s] = "buy"
  /\ outcome \in OutcomesFor(route, env[s][Dispatched(req[s].buyExchange)])
  /\ LET buy == OrderResult(route, outcome) IN
       IF buy.success
         THEN Suspend(s, "settle", env[s], buy)
         ELSE Respond(s, TradeResponse(buy, SkippedSell(route, buy)))
  /\ calls' = [calls EXCEPT ![s] = Append(@, Returned("buy", Dispatched(req[s].buyExchange), outcome, 0))]
  /\ UNCHANGED calcVars
  /\ UNCHANGED <<dashboard, route, now, trades, dpc, tradeId, refreshed>>

\* the timer fires after the settlement delay and the sell leg runs up to
\* its await
SettleDone(s) ==
  /\ spc[s] = "settle"
  /\ now' = IF now < MaxClock THEN now + 1 ELSE now
  /\ LET r == req[s]
         early == BeforeSend(route, "sell", Dispatched(r.sellExchange), r.amount, env[s][Dispatched(r.sellExchange)], 0)
     IN IF early # NotCalled
          THEN /\ Respond(s, TradeResponse(buyResult[s], early))
               /\ UNCHANGED calls
          ELSE /\ Suspend(s, "sell", env[s], buyResult[s])
               /\ calls' = [calls EXCEPT ![s] =
                    Append(@, Sent("sell", Dispatched(r.sellExchange), OrderSize(route, "sell", r.amount, 0)))]
  /\ UNCHANGED calcVars
  /\ UNCHANGED <<dashboard, route, trades, dpc, tradeId, refreshed>>

\* variant of SellReturns in which the order function lets a failure of the
\* venue call escape as an exception, so that the catch of POST answers
SellReturnsThrows(s, outcome) ==
  /\ spc[s] = "sell"
  /\ outcome \in OutcomesFor(route, env[s][Dispatched(req[s].sellExchange)])
  /\ IF OrderResult(route, outcome).success
       THEN Respond(s, TradeResponse(buyResult[s], OrderResult(route, outcome)))
       ELSE Respond(s, UnexpectedError)
  /\ calls' = [calls EXCEPT ![s] = Append(@, Returned("sell", Dispatched(req[s].sellExchange), outcome, 0))]
  /\ UNCHANGED calcVars
  /\ UNCHANGED <<dashboard, route, now, trades, dpc, tradeId, refreshed>>

\* variant of SellReturns that answers a sell whose call timed out as if the
\* buy had not executed either
SellReturnsVoidsBuy(s, outcome) ==
  /\ spc[s] = "sell"
  /\ outcome \in OutcomesFor(route, env[s][Dispatched(req[s].sellExchange)])
  /\ LET sell == OrderResult(route, outcome) IN
       IF outcome = "timeout"
         THEN Respond(s, TradeResponse(SkippedSell(route, sell), sell))
         ELSE Respond(s, TradeResponse(buyResult[s], sell))
  /\ calls' = [calls EXCEPT ![s] = Append(@, Returned("sell", Dispatched(req[s].sellExchange), outcome, 0))]
  /\ UNCHANGED calcVars
  /\ UNCHANGED <<dashboard, route, now, trades, dpc, tradeId, refreshed>>

\* the sell order function returns and POST answers
SellReturns(s, outcome) ==
  /\ spc[s] = "sell"
  /\ outcome \in OutcomesFor(route, env[s][Dispatched(req[s].sellExchange)])
  /\ Respond(s, TradeResponse(buyResult[s], OrderResult(route, outcome)))
  /\ calls' = [calls EXCEPT ![s] = Append(@, Returned("sell", Dispatched(req[s].sellExchange), outcome, 0))]
  /\ UNCHANGED calcVars
  /\ UNCHANGED <<dashboard, route, now, trades, dpc, tradeId, refreshed>>

\* ---------------------------------------------------------- venue account
\* the answer of /api/balances when both venues report what they hold
FundsAnswer ==
  [okx |-> [success |-> TRUE, USDT |-> funds.avail["OKX"]],
   kucoin |-> [success |-> TRUE, USDT |-> funds.avail["KuCoin"]]]

\* the size of the buy order an execution has in flight
BuyInFlight(s) == calls[s][Len(calls[s])].size

\* the buy venue fills the market order that is in flight, if the account
\* holds enough USDT for it (the coin is taken to cost 1 USDT a unit)
VenueFills(s) ==
  /\ spc[s] = "buy"
  /\ s \notin funds.filled
  /\ LET venue == Dispatched(req[s].buyExchange) IN
       /\ funds.avail[venue] >= BuyInFlight(s)
       /\ funds' = [avail |-> [funds.avail EXCEPT ![venue] = @ - BuyInFlight(s)],
                    filled |-> funds.filled \cup {s}]
  /\ UNCHANGED tradeVars
  /\ UNCHANGED <<sizing, scanner, feeds, scan, rescan, lookup, balanceQuery, audit, auto>>

\* ------------------------------------------------------------ order sizing
\* getTradeAmount of the dashboard with the amounts of its two middle ranges
\* exchanged
getTradeAmountSwapped(price) ==
  IF price > 35000 THEN 1
  ELSE IF price >= 10000 /\ price <= 35000 THEN 8
  ELSE IF price >= 500 /\ price < 10000 THEN 4
  ELSE IF price < 5000 THEN 15
  ELSE 1

\* getTradeAmount of the dashboard (page.tsx), on a price in price units
getTradeAmount(price) ==
  IF price > 35000 THEN 1
  ELSE IF price >= 10000 /\ price <= 35000 THEN 4
  ELSE IF price >= 500 /\ price < 10000 THEN 8
  ELSE IF price < 5000 THEN 15
  ELSE 1

\* buy prices a coin of the dashboard can have (all below the 5 USDT cap)
SizingPrices == {400, 5000, 10000, 20000, 35000, 40000}

\* a buy order as the dashboard asks for it: the size comes from the price
\* table, the balance is what the route obtained for the buy venue
BuyOrders ==
  {[price |-> p, amount |-> getTradeAmount(p), balance |-> b, stage |-> "requested", size |-> 0] :
     p \in SizingPrices, b \in 0..MaxBalance}

\* the order function of part_002 on a buy with credentials present, up to
\* the request: either it returns insufficient_balance without sending, or it
\* sends an order of the adjusted size
SizeBuyOrder ==
  /\ sizing.stage = "requested"
  /\ LET early == PreDispatch("buy", sizing.amount, TRUE, sizing.balance) IN
       sizing' = IF early # NotCalled
                   THEN [sizing EXCEPT !.stage = early.errorType]
                   ELSE [sizing EXCEPT !.stage = "sent",
                           !.size = OrderSize("part_002", "buy", sizing.amount, sizing.balance)]
  /\ UNCHANGED <<dashboard, route, now, trades, dpc, tradeId, req, spc, env, buyResult,
                 calls, response, refreshed, scanner, feeds, scan, rescan, lookup,
                 balanceQuery, audit, funds, auto>>

\* ------------------------------------------------------------ price scan
\* prices/route.ts holds two GET handlers: the first lists the common symbols
\* that pass the eligibility filter, the second lists every common symbol
ScannerVariants == {"filtering", "listing"}

\* the symbols of the tickers, in the order OKX lists them
SymbolOrder == <<"X", "Y">>

\* last prices a ticker can show, in price units; 0 stands for a symbol the
\* venue does not list
ScanPrices == {0, 5000, 5030, 5100, 10000, 10100, 12000, 22000, 60000}

\* the symbol of the i-th ticker
SymbolAt(i) == IF i \in DOMAIN SymbolOrder THEN SymbolOrder[i] ELSE ToString(i)

\* what one venue contributes to a scan: no data at all (okxData = null), or
\* its tickers
VenueFeeds ==
  {[up |-> FALSE, last |-> [i \in DOMAIN SymbolOrder |-> 0]]} \cup
  {[up |-> TRUE, last |-> l] : l \in [DOMAIN SymbolOrder -> ScanPrices]}

\* markets with more common symbols than the list may hold: OKX quotes every
\* symbol at 0.5 USDT, KuCoin quotes the i-th one a spread above it that
\* depends on its place, and one symbol may stand far out (above the 50%
\* profit cap)
LongListLen == LIST_LIMIT + 2
SpreadStarts == 0 .. 7
SpreadStrides == {0, 1, 3, 7}
OutlierPlaces == {0, 1, LongListLen}

LongFeed(start, stride, outlier) ==
  <<[up |-> TRUE, last |-> [i \in 1 .. LongListLen |-> 5000]],
    [up |-> TRUE,
     last |-> [i \in 1 .. LongListLen |->
                 IF i = outlier THEN 9000 ELSE 5020 + ((start + i * stride) % 53)]]>>

LongFeeds ==
  {LongFeed(start, stride, outlier) :
     start \in SpreadStarts, stride \in SpreadStrides, outlier \in OutlierPlaces}

\* a market quoted near 0.2 USDT on both venues, 0.0015 USDT apart
NarrowFeeds ==
  {<<[up |-> TRUE, last |-> [i \in DOMAIN SymbolOrder |-> IF i = 1 THEN o ELSE 0]],
     [up |-> TRUE, last |-> [i \in DOMAIN SymbolOrder |-> IF i = 1 THEN k ELSE 0]]>> :
     o \in {2000, 2015}, k \in {2000, 2015}}

Feeds == {<<o, k>> : o \in VenueFeeds, k \in VenueFeeds} \cup LongFeeds \cup NarrowFeeds

\* !isNaN(price) && price > 0 && price < 5
Admitted(price) == price > 0 /\ price < PRICE_CAP_USDT * PriceUnitsPerUSDT

\* getTradeAmount of the prices route (estimatedAmount)
getEstimatedAmount(price) ==
  IF price < 100 THEN 100
  ELSE IF price < 1000 THEN 50
  ELSE IF price < 10000 THEN 10
  ELSE 1

\* greatest common divisor, to keep a fraction in lowest terms
RECURSIVE GCD(_, _)
GCD(a, b) == IF b = 0 THEN a ELSE GCD(b, a % b)

\* the entry of one common symbol. profitPercent = priceDiff / avgPrice * 100
\* is kept as the fraction profitNum / profitDen in lowest terms; netProfit
\* is kept in thousandths of a price unit. The second handler computes no
\* net profit. lastUpdated is the reading of the clock when the entry is
\* built.
Coin(variant, i, okxPrice, kucoinPrice) ==
  LET buyPrice == IF okxPrice < kucoinPrice THEN okxPrice ELSE kucoinPrice
      sellPrice == IF okxPrice < kucoinPrice THEN kucoinPrice ELSE okxPrice
      amount == getEstimatedAmount(buyPrice)
      buyFee == buyPrice * amount * FEE_THOUSANDTHS
      sellFee == sellPrice * amount * FEE_THOUSANDTHS
  IN [symbol |-> SymbolAt(i), lastUpdated |-> now, okxPrice |-> okxPrice, kucoinPrice |-> kucoinPrice,
      priceDiff |-> sellPrice - buyPrice,
      profitNum |-> (200 * (sellPrice - buyPrice))
                      \div GCD(200 * (sellPrice - buyPrice), okxPrice + kucoinPrice),
      profitDen |-> (okxPrice + kucoinPrice)
                      \div GCD(200 * (sellPrice - buyPrice), okxPrice + kucoinPrice),
      hasNetProfit |-> variant = "filtering",
      netProfit |-> IF variant = "filtering"
                      THEN (sellPrice - buyPrice) * amount * 1000 - buyFee - sellFee
                      ELSE 0,
      buyExchange |-> IF variant # "filtering" THEN "none"
                      ELSE IF okxPrice < kucoinPrice THEN "OKX" ELSE "KuCoin",
      sellExchange |-> IF variant # "filtering" THEN "none"
                       ELSE IF okxPrice < kucoinPrice THEN "KuCoin" ELSE "OKX",
      estimatedAmount |-> IF variant = "filtering" THEN amount ELSE 0]

\* isEligible of the first handler
isEligible(coin) ==
  /\ coin.profitNum * 10 >= MIN_PROFIT_PERCENT_TENTHS * coin.profitDen
  /\ coin.profitNum <= MAX_PROFIT_PERCENT * coin.profitDen
  /\ coin.priceDiff >= MIN_PRICE_DIFF
  /\ coin.netProfit > MIN_NET_PROFIT * 1000

\* the coins pushed by the loop over the common symbols, in its order
Pushed(variant, f, i) ==
  LET n == Len(f[1].last)
      kept == SelectSeq([j \in 1 .. (n - i + 1) |-> j + i - 1],
                        LAMBDA j : /\ Admitted(f[1].last[j])
                                   /\ Admitted(f[2].last[j])
                                   /\ variant = "filtering" =>
                                        isEligible(Coin(variant, j, f[1].last[j], f[2].last[j])))
  IN [p \in 1 .. Len(kept) |-> Coin(variant, kept[p], f[1].last[kept[p]], f[2].last[kept[p]])]

\* coins.sort((a, b) => b.profitPercent - a.profitPercent): a stable sort,
\* highest profitPercent first. A coin stands behind every coin of a higher
\* profitPercent and behind the coins of the same profitPercent that were
\* pushed before it.
SortCoins(coins) ==
  LET n == Len(coins)
      Higher(a, b) == a.profitNum * b.profitDen > b.profitNum * a.profitDen
      place == [i \in 1 .. n |->
                  1 + Cardinality({j \in 1 .. n :
                                     \/ Higher(coins[j], coins[i])
                                     \/ /\ ~Higher(coins[i], coins[j])
                                        /\ j < i})]
      placed == {<<place[i], i>> : i \in 1 .. n}
  IN [p \in 1 .. n |-> coins[(CHOOSE at \in placed : at[1] = p)[2]]]

\* the number of symbols a venue's price map holds
CoinsCount(feed) == Cardinality({i \in DOMAIN feed.last : Admitted(feed.last[i])})

\* the answer of GET if the list were cut before it is sorted
ScanResultCutFirst(variant, f) ==
  IF ~f[1].up /\ ~f[2].up
    THEN [NoScan EXCEPT !.status = 500]
    ELSE LET pushed == Pushed(variant, f, 1) IN
         [status |-> 200,
          coins |-> SortCoins(SubSeq(pushed, 1, IF Len(pushed) < LIST_LIMIT THEN Len(pushed) ELSE LIST_LIMIT)),
          okxAvailable |-> f[1].up, kucoinAvailable |-> f[2].up,
          okxCoinsCount |-> CoinsCount(f[1]), kucoinCoinsCount |-> CoinsCount(f[2])]

\* the answer of GET if it gave up as soon as one venue is without data
ScanResultNeedsBoth(variant, f) ==
  IF ~f[1].up \/ ~f[2].up
    THEN [NoScan EXCEPT !.status = 500]
    ELSE LET sorted == SortCoins(Pushed(variant, f, 1)) IN
         [status |-> 200,
          coins |-> SubSeq(sorted, 1, IF Len(sorted) < LIST_LIMIT THEN Len(sorted) ELSE LIST_LIMIT),
          okxAvailable |-> f[1].up, kucoinAvailable |-> f[2].up,
          okxCoinsCount |-> CoinsCount(f[1]), kucoinCoinsCount |-> CoinsCount(f[2])]

\* the answer of GET for the data the two venues gave
ScanResult(variant, f) ==
  IF ~f[1].up /\ ~f[2].up
    THEN [NoScan EXCEPT !.status = 500]
    ELSE LET sorted == SortCoins(Pushed(variant, f, 1)) IN
         [status |-> 200,
          coins |-> SubSeq(sorted, 1, IF Len(sorted) < LIST_LIMIT THEN Len(sorted) ELSE LIST_LIMIT),
          okxAvailable |-> f[1].up, kucoinAvailable |-> f[2].up,
          okxCoinsCount |-> CoinsCount(f[1]), kucoinCoinsCount |-> CoinsCount(f[2])]

\* one GET of the prices route
Scan ==
  /\ feeds # NoFeeds
  /\ scan = NoScan
  /\ scan' = ScanResult(scanner, feeds)
  /\ UNCHANGED <<dashboard, route, now, trades, dpc, tradeId, req, spc, env, buyResult,
                 calls, response, refreshed, sizing, scanner, feeds, rescan, lookup,
                 balanceQuery, audit, funds, auto>>

\* ------------------------------------------------------ trade-amount tables
TradeTables == {"scanner", "dashboard"}

\* prices of the admitted range (above 0, below 5 USDT), at and next to every
\* breakpoint of the two tables
LookupPrices ==
  {1, 99, 100, 101, 499, 500, 501, 999, 1000, 1001, 4999, 5000, 5001, 9999, 10000,
   10001, 35000, 35001, 49999}

Lookups ==
  {l \in [table : TradeTables, p1 : LookupPrices, p2 : LookupPrices, a1 : {0}, a2 : {0}] :
     l.p1 <= l.p2}

\* the amount a table gives for a price
TradeAmountOf(table, price) ==
  IF table = "scanner" THEN getEstimatedAmount(price) ELSE getTradeAmount(price)

\* both prices are looked up in the table
LookUp ==
  /\ lookup.table \in TradeTables
  /\ lookup.a1 = 0
  /\ lookup' = [lookup EXCEPT !.a1 = TradeAmountOf(lookup.table, lookup.p1),
                              !.a2 = TradeAmountOf(lookup.table, lookup.p2)]
  /\ UNCHANGED tradeVars
  /\ UNCHANGED <<sizing, scanner, feeds, scan, rescan, balanceQuery, audit, funds, auto>>

\* ------------------------------------------------------------ balance query
\* what a venue can answer to the signed balance request: the request fails
\* or is aborted, the body does not parse, the status is not 2xx, the venue's
\* code is not its success code, or status and code are fine and the account
\* data holds no USDT entry or one with availBal
BalanceVenueAnswers ==
  {"network_error", "timeout", "json_parse_error", "http_error", "api_error",
   "no_usdt_entry", "usdt"}

BalanceQueries ==
  {q \in [venue : Venues, creds : CredStates, answer : BalanceVenueAnswers,
          availBal : BalanceValues, stage : {"asked"}, success : {FALSE}, USDT : {0},
          errorType : {"none"}] :
     q.answer # "usdt" => q.availBal = 0}

\* fetchOKXBalance / fetchKuCoinBalance: the result for one venue answer
fetchBalance(q) ==
  IF q.creds # "complete"
    THEN [q EXCEPT !.stage = "answered", !.errorType = "missing_credentials"]
  ELSE IF q.answer \in {"network_error", "timeout", "json_parse_error", "http_error", "api_error"}
    THEN [q EXCEPT !.stage = "answered", !.errorType = q.answer]
  ELSE [q EXCEPT !.stage = "answered", !.success = TRUE,
                 !.USDT = IF q.answer = "usdt" THEN q.availBal ELSE 0]

\* one venue's balance function runs to its return
BalanceFetched ==
  /\ balanceQuery.stage = "asked"
  /\ balanceQuery' = fetchBalance(balanceQuery)
  /\ UNCHANGED tradeVars
  /\ UNCHANGED <<sizing, scanner, feeds, scan, rescan, lookup, audit, funds, auto>>

\* ------------------------------------------------- what an order call shows
\* Values that appear in headers, logs and results are kept as tuples of
\* strings: a one-element tuple for a plain text, <<"hmac", key, message>> for
\* the base64 digest of an HMAC-SHA256 of message under key.
ApiKey == "api-key"
SecretKeys == {"secret-1", "secret-2"}
Passphrases == {"phrase-1", "phrase-2"}
Secrets == [secretKey : SecretKeys, passphrase : Passphrases]

\* createOKXSignature / createKuCoinSignature
createSignature(secretKey) == <<"hmac", secretKey, "timestamp+method+requestPath+body">>

\* createKuCoinPassphraseSignature
createKuCoinPassphraseSignature(passphrase, secretKey) == <<"hmac", secretKey, passphrase>>

\* the credential headers of the request that goes to the venue
SentHeaders(venue, sec) ==
  <<<<ApiKey>>, createSignature(sec.secretKey), <<"timestamp">>,
    IF venue = "KuCoin" THEN createKuCoinPassphraseSignature(sec.passphrase, sec.secretKey)
                        ELSE <<sec.passphrase>>>>

\* requestDetails if it were built from the headers that are sent
requestDetailsUnmasked(venue, sec) ==
  <<<<"url">>, <<"POST">>>> \o SentHeaders(venue, sec) \o <<<<"orderData">>>>

\* requestDetails: url, method, the headers with signature and passphrase
\* replaced by fixed texts, and the order data
requestDetails(venue, sec) ==
  <<<<"url">>, <<"POST">>, <<ApiKey>>, <<"[signature]">>, <<"timestamp">>, <<"[passphrase]">>,
    <<"orderData">>>>

\* what the venue's answer contributes: status line, headers and body text
responseStatus(outcome) == <<<<"status", outcome>>, <<"headers", outcome>>>>
responseText(outcome) == <<<<"responseText", outcome>>>>

\* the console output of one order call, in order
OrderLog(venue, side, sec, outcome) ==
  <<[label |-> "executing_order", atoms |-> <<<<venue>>, <<side>>, <<"orderData">>>>],
    [label |-> "request_details", atoms |-> requestDetails(venue, sec)]>>
  \o (IF outcome \in {"network_error", "timeout"} THEN <<>>
      ELSE <<[label |-> "response_status", atoms |-> responseStatus(outcome)],
             [label |-> "raw_response", atoms |-> responseText(outcome)]>>
           \o (IF outcome \in {"unparsable", "http_unparsable"}
                 THEN <<[label |-> "json_parsing_error", atoms |-> <<<<"parseError">>>>]>>
                 ELSE <<[label |-> "order_response", atoms |-> responseText(outcome)]>>))

\* the result one order call returns: error text and details
OrderOutput(venue, side, sec, outcome) ==
  LET result == DetailedOrderResult(outcome) IN
  [success |-> result.success, error |-> result.error,
   atoms |->
     IF outcome \in {"network_error", "timeout"}
       THEN <<<<"orderData">>, <<"errorMessage">>, <<"errorStack">>>> \o requestDetails(venue, sec)
     ELSE IF outcome = "success"
       THEN <<<<"orderData">>>> \o responseText(outcome)
     ELSE responseText(outcome) \o requestDetails(venue, sec)]

Audits ==
  [venue : Venues, side : {"buy", "sell"}, outcome : VenueOutcomes,
   secrets : {<<a, b>> : a \in Secrets, b \in Secrets}, stage : {"pending"},
   sent : {<<>>}, logs : {<<>>}, results : {<<>>}]

\* the same order call runs twice, once with each set of secrets, and meets
\* the same answer of the venue
OrderCalls ==
  /\ audit.stage = "pending"
  /\ audit' = [audit EXCEPT
       !.stage = "done",
       !.sent = [r \in 1 .. 2 |-> SentHeaders(audit.venue, audit.secrets[r])],
       !.logs = [r \in 1 .. 2 |->
                   OrderLog(audit.venue, audit.side, audit.secrets[r], audit.outcome)],
       !.results = [r \in 1 .. 2 |->
                      OrderOutput(audit.venue, audit.side, audit.secrets[r], audit.outcome)]]
  /\ UNCHANGED tradeVars
  /\ UNCHANGED <<sizing, scanner, feeds, scan, rescan, lookup, balanceQuery, funds, auto>>

\* a second GET of the prices route while the venues still give the same data
Rescan ==
  /\ scan # NoScan
  /\ rescan = NoScan
  /\ rescan' = ScanResult(scanner, feeds)
  /\ UNCHANGED tradeVars
  /\ UNCHANGED <<sizing, scanner, feeds, scan, lookup, balanceQuery, audit, funds, auto>>

\* ------------------------------------------------------------- auto-trade
\* netProfit as executeTrade and autoTrade of the dashboard recompute it, with
\* the dashboard's own getTradeAmount; in thousandths of a price unit
DashboardNetProfit(coin) ==
  LET buyPrice == IF coin.okxPrice < coin.kucoinPrice THEN coin.okxPrice ELSE coin.kucoinPrice
      sellPrice == IF coin.okxPrice < coin.kucoinPrice THEN coin.kucoinPrice ELSE coin.okxPrice
      amount == getTradeAmount(buyPrice)
      buyFee == buyPrice * amount * FEE_THOUSANDTHS
      sellFee == sellPrice * amount * FEE_THOUSANDTHS
  IN (sellPrice - buyPrice) * amount * 1000 - buyFee - sellFee

\* executeTrade goes on past `if (netProfit <= 0.01) return`
PassesProfitCheck(coin) == DashboardNetProfit(coin) > MIN_NET_PROFIT * 1000

\* the filter of autoTrade: netProfit > 0.01 && coin.profitPercent <= 50
Profitable(coin) ==
  /\ PassesProfitCheck(coin)
  /\ coin.profitNum <= MAX_PROFIT_PERCENT * coin.profitDen

\* coins.filter(...)
ProfitableCoins(coins) == SelectSeq(coins, Profitable)

\* profitableCoins.reduce((best, current) =>
\*   current.profitPercent > best.profitPercent ? current : best)
RECURSIVE BestCoin(_)
BestCoin(coins) ==
  IF Len(coins) = 1 THEN coins[1]
  ELSE LET best == BestCoin(SubSeq(coins, 1, Len(coins) - 1))
           current == coins[Len(coins)]
       IN IF current.profitNum * best.profitDen > best.profitNum * current.profitDen
            THEN current ELSE best

\* the coin lists the dashboard can hold when the auto-trade timer fires
AutoCoinLists ==
  {<<>>,
   <<Coin("filtering", 1, 5000, 5000)>>,
   <<Coin("filtering", 1, 5000, 5100)>>,
   <<Coin("filtering", 1, 5000, 5030), Coin("filtering", 2, 10100, 10000)>>}

\* the auto-trade switch of the dashboard is flipped
ToggleAutoTrade ==
  /\ auto' = [auto EXCEPT !.enabled = ~auto.enabled]
  /\ UNCHANGED tradeVars
  /\ UNCHANGED <<sizing, scanner, feeds, scan, rescan, lookup, balanceQuery, audit, funds>>

\* one firing of setInterval(autoTrade, 10000): autoTrade picks the best of
\* the profitable coins and runs executeTrade on it up to its first await.
\* Nothing in autoTrade or executeTrade looks at the trades that are still
\* pending, and an execution can outlast the period of the timer: each order
\* call may take up to its 15 s timeout, and 2 s pass between the two legs.
AutoTradeTick(s) ==
  /\ auto.enabled
  /\ Len(ProfitableCoins(auto.coins)) > 0
  /\ dpc[s] = "idle"
  /\ \A p \in Slots : p < s => dpc[p] # "idle"
  /\ now < MaxClock
  /\ LET bestCoin == BestCoin(ProfitableCoins(auto.coins))
         buyPrice == IF bestCoin.okxPrice < bestCoin.kucoinPrice
                       THEN bestCoin.okxPrice ELSE bestCoin.kucoinPrice
         id == NewTradeId(dashboard, now, RandomSuffix(s))
     IN /\ PassesProfitCheck(bestCoin)
        /\ tradeId' = [tradeId EXCEPT ![s] = id]
        /\ trades' = <<NewTrade(id)>> \o trades
        /\ req' = [req EXCEPT ![s] =
                     [symbol |-> bestCoin.symbol,
                      buyExchange |-> IF bestCoin.okxPrice < bestCoin.kucoinPrice
                                        THEN "OKX" ELSE "KuCoin",
                      sellExchange |-> IF bestCoin.okxPrice < bestCoin.kucoinPrice
                                         THEN "KuCoin" ELSE "OKX",
                      amount |-> getTradeAmount(buyPrice)]]
  /\ dpc' = [dpc EXCEPT ![s] = "awaiting"]
  /\ spc' = [spc EXCEPT ![s] = "received"]
  /\ UNCHANGED calcVars
  /\ UNCHANGED <<dashboard, route, now, env, buyResult, calls, response, refreshed>>

\* --------------------------------------------------------- specifications
\* RouteSpec: one execution attempt with every input the route can meet
\* (credentials, balances, venue outcomes).
RouteNext ==
  \/ \E b \in Venues, v \in Venues, a \in Amounts : StartTrade(1, b, v, a)
  \/ ResultArrives(1)
  \/ RequestThrows(1)
  \/ ResponseLost(1)
  \/ Tick
  \/ \E c \in CredStates, k \in CredStates : Receive(1, c, k)
  \/ \E b \in BalanceAnswers : BalanceReturns(1, b)
  \/ BalanceMalformed(1)
  \/ \E o \in VenueOutcomes : BuyReturns(1, o)
  \/ SettleDone(1)
  \/ \E o \in VenueOutcomes : SellReturns(1, o)

RouteSpec == Init /\ [][RouteNext]_vars

\* what the route does by itself once it can: run the handler when a request
\* came in, fire the settlement timer, abort an order call on its timer
RouteTimers ==
  \/ \E c \in CredStates, k \in CredStates : Receive(1, c, k)
  \/ SettleDone(1)
  \/ BuyReturns(1, "timeout")
  \/ SellReturns(1, "timeout")

\* RouteSpec with the route's own steps taken when they stay possible; a
\* venue or the balances route need not ever answer
TimedRouteSpec == RouteSpec /\ WF_vars(RouteTimers)

\* Spec: concurrent execution attempts of one dashboard, with one trade size,
\* configured credentials and the venue outcomes that differ for the dashboard
SysAmounts == {4}
SysCreds == {"complete"}
SysOutcomes == {"success", "missing_order_id", "api_error"}
SysBalances ==
  {b \in BalanceAnswers : b.okx = b.kucoin}

Next ==
  \/ \E s \in Slots, b \in Venues, v \in Venues, a \in SysAmounts : StartTrade(s, b, v, a)
  \/ \E s \in Slots : ResultArrives(s)
  \/ \E s \in Slots : RequestThrows(s)
  \/ \E s \in Slots : ResponseLost(s)
  \/ Tick
  \/ \E s \in Slots, c \in SysCreds, k \in SysCreds : Receive(s, c, k)
  \/ \E s \in Slots, b \in SysBalances : BalanceReturns(s, b)
  \/ \E s \in Slots : BalanceMalformed(s)
  \/ \E s \in Slots, o \in SysOutcomes : BuyReturns(s, o)
  \/ \E s \in Slots : SettleDone(s)
  \/ \E s \in Slots, o \in SysOutcomes : SellReturns(s, o)

Spec == Init /\ [][Next]_vars

\* ApiSpec: one request to execute-trade from any client, with every body of
\* RequestBodies
ApiNext ==
  \/ \E body \in RequestBodies : PostDirect(1, body)
  \/ \E c \in CredStates, k \in CredStates : Receive(1, c, k)
  \/ \E b \in BalanceAnswers : BalanceReturns(1, b)
  \/ BalanceMalformed(1)
  \/ \E o \in VenueOutcomes : BuyReturns(1, o)
  \/ SettleDone(1)
  \/ \E o \in VenueOutcomes : SellReturns(1, o)

ApiSpec == Init /\ [][ApiNext]_vars

\* SharedSpec: concurrent executions of part_002 against venue accounts that
\* the model keeps: the balances route reports what the venue holds, a buy
\* succeeds when the venue filled it and fails with a venue error otherwise
SharedInit ==
  /\ dashboard \in DashboardVariants
  /\ route = "part_002"
  /\ now = 0
  /\ trades = <<>>
  /\ dpc = [s \in Slots |-> "idle"]
  /\ tradeId = [s \in Slots |-> NoId]
  /\ req = [s \in Slots |-> NoReq]
  /\ spc = [s \in Slots |-> "none"]
  /\ env = [s \in Slots |-> NoEnv]
  /\ buyResult = [s \in Slots |-> NotCalled]
  /\ calls = [s \in Slots |-> <<>>]
  /\ response = [s \in Slots |-> NoResponse]
  /\ refreshed = [s \in Slots |-> FALSE]
  /\ sizing = NoSizing
  /\ scanner = "filtering"
  /\ feeds = NoFeeds
  /\ scan = NoScan
  /\ rescan = NoScan
  /\ lookup = NoLookup
  /\ balanceQuery = NoBalanceQuery
  /\ audit = NoAudit
  /\ funds \in [avail : [Venues -> BalanceValues], filled : {{}}]
  /\ auto = NoAuto

SharedNext ==
  \/ \E s \in Slots, b \in Venues, v \in Venues, a \in SysAmounts : StartTrade(s, b, v, a)
  \/ \E s \in Slots : ResultArrives(s)
  \/ \E s \in Slots, c \in SysCreds, k \in SysCreds : Receive(s, c, k)
  \/ \E s \in Slots : BalanceReturns(s, FundsAnswer)
  \/ \E s \in Slots : VenueFills(s)
  \/ \E s \in Slots : s \in funds.filled /\ BuyReturns(s, "success")
  \/ \E s \in Slots : s \notin funds.filled /\ BuyReturns(s, "api_error")
  \/ \E s \in Slots : SettleDone(s)
  \/ \E s \in Slots, o \in SysOutcomes : SellReturns(s, o)

SharedSpec == SharedInit /\ [][SharedNext]_vars

\* SizingSpec: the sizing of one buy order, for every price of the table and
\* every balance up to MaxBalance
SizingInit ==
  /\ dashboard = "page_tsx"
  /\ route = "part_002"
  /\ now = 0
  /\ trades = <<>>
  /\ dpc = [s \in Slots |-> "idle"]
  /\ tradeId = [s \in Slots |-> NoId]
  /\ req = [s \in Slots |-> NoReq]
  /\ spc = [s \in Slots |-> "none"]
  /\ env = [s \in Slots |-> NoEnv]
  /\ buyResult = [s \in Slots |-> NotCalled]
  /\ calls = [s \in Slots |-> <<>>]
  /\ response = [s \in Slots |-> NoResponse]
  /\ refreshed = [s \in Slots |-> FALSE]
  /\ sizing \in BuyOrders
  /\ scanner = "filtering"
  /\ feeds = NoFeeds
  /\ scan = NoScan
  /\ rescan = NoScan
  /\ lookup = NoLookup
  /\ balanceQuery = NoBalanceQuery
  /\ audit = NoAudit
  /\ funds = NoFunds
  /\ auto = NoAuto

SizingNext == SizeBuyOrder

SizingSpec == SizingInit /\ [][SizingNext]_vars

\* ScanSpec: a scan by either handler and a second one on the same data, for
\* every pair of venue answers over the symbols of SymbolOrder and the prices
\* of ScanPrices, and for the long markets of LongFeeds
ScanInit ==
  /\ dashboard = "page_tsx"
  /\ route = "part_002"
  /\ now = 0
  /\ trades = <<>>
  /\ dpc = [s \in Slots |-> "idle"]
  /\ tradeId = [s \in Slots |-> NoId]
  /\ req = [s \in Slots |-> NoReq]
  /\ spc = [s \in Slots |-> "none"]
  /\ env = [s \in Slots |-> NoEnv]
  /\ buyResult = [s \in Slots |-> NotCalled]
  /\ calls = [s \in Slots |-> <<>>]
  /\ response = [s \in Slots |-> NoResponse]
  /\ refreshed = [s \in Slots |-> FALSE]
  /\ sizing = NoSizing
  /\ scanner \in ScannerVariants
  /\ feeds \in Feeds
  /\ scan = NoScan
  /\ rescan = NoScan
  /\ lookup = NoLookup
  /\ balanceQuery = NoBalanceQuery
  /\ audit = NoAudit
  /\ funds = NoFunds
  /\ auto = NoAuto

ScanNext ==
  \/ Scan
  \/ Rescan
  \/ Tick

ScanSpec == ScanInit /\ [][ScanNext]_vars

\* LookupSpec: two prices of the admitted range looked up in one of the two
\* trade-amount tables
LookupInit ==
  /\ dashboard = "page_tsx"
  /\ route = "part_002"
  /\ now = 0
  /\ trades = <<>>
  /\ dpc = [s \in Slots |-> "idle"]
  /\ tradeId = [s \in Slots |-> NoId]
  /\ req = [s \in Slots |-> NoReq]
  /\ spc = [s \in Slots |-> "none"]
  /\ env = [s \in Slots |-> NoEnv]
  /\ buyResult = [s \in Slots |-> NotCalled]
  /\ calls = [s \in Slots |-> <<>>]
  /\ response = [s \in Slots |-> NoResponse]
  /\ refreshed = [s \in Slots |-> FALSE]
  /\ sizing = NoSizing
  /\ scanner = "filtering"
  /\ feeds = NoFeeds
  /\ scan = NoScan
  /\ rescan = NoScan
  /\ lookup \in Lookups
  /\ balanceQuery = NoBalanceQuery
  /\ audit = NoAudit
  /\ funds = NoFunds
  /\ auto = NoAuto

LookupNext == LookUp

LookupSpec == LookupInit /\ [][LookupNext]_vars

\* BalanceSpec: one call of a venue's balance function, for every state of
\* its credentials and every answer of the venue
BalanceInit ==
  /\ dashboard = "page_tsx"
  /\ route = "part_002"
  /\ now = 0
  /\ trades = <<>>
  /\ dpc = [s \in Slots |-> "idle"]
  /\ tradeId = [s \in Slots |-> NoId]
  /\ req = [s \in Slots |-> NoReq]
  /\ spc = [s \in Slots |-> "none"]
  /\ env = [s \in Slots |-> NoEnv]
  /\ buyResult = [s \in Slots |-> NotCalled]
  /\ calls = [s \in Slots |-> <<>>]
  /\ response = [s \in Slots |-> NoResponse]
  /\ refreshed = [s \in Slots |-> FALSE]
  /\ sizing = NoSizing
  /\ scanner = "filtering"
  /\ feeds = NoFeeds
  /\ scan = NoScan
  /\ rescan = NoScan
  /\ lookup = NoLookup
  /\ balanceQuery \in BalanceQueries
  /\ audit = NoAudit
  /\ funds = NoFunds
  /\ auto = NoAuto

BalanceNext == BalanceFetched

BalanceSpec == BalanceInit /\ [][BalanceNext]_vars

\* AuditSpec: one order call run with two sets of secrets, for every venue,
\* side and answer of the venue
AuditInit ==
  /\ dashboard = "page_tsx"
  /\ route = "part_002"
  /\ now = 0
  /\ trades = <<>>
  /\ dpc = [s \in Slots |-> "idle"]
  /\ tradeId = [s \in Slots |-> NoId]
  /\ req = [s \in Slots |-> NoReq]
  /\ spc = [s \in Slots |-> "none"]
  /\ env = [s \in Slots |-> NoEnv]
  /\ buyResult = [s \in Slots |-> NotCalled]
  /\ calls = [s \in Slots |-> <<>>]
  /\ response = [s \in Slots |-> NoResponse]
  /\ refreshed = [s \in Slots |-> FALSE]
  /\ sizing = NoSizing
  /\ scanner = "filtering"
  /\ feeds = NoFeeds
  /\ scan = NoScan
  /\ rescan = NoScan
  /\ lookup = NoLookup
  /\ balanceQuery = NoBalanceQuery
  /\ audit \in Audits
  /\ funds = NoFunds
  /\ auto = NoAuto

AuditNext == OrderCalls

AuditSpec == AuditInit /\ [][AuditNext]_vars

\* AutoSpec: the dashboard of page.tsx with its auto-trade timer, the coin
\* list it shows, and the executions the timer starts
AutoInit ==
  /\ dashboard = "page_tsx"
  /\ route \in RouteVariants
  /\ now = 0
  /\ trades = <<>>
  /\ dpc = [s \in Slots |-> "idle"]
  /\ tradeId = [s \in Slots |-> NoId]
  /\ req = [s \in Slots |-> NoReq]
  /\ spc = [s \in Slots |-> "none"]
  /\ env = [s \in Slots |-> NoEnv]
  /\ buyResult = [s \in Slots |-> NotCalled]
  /\ calls = [s \in Slots |-> <<>>]
  /\ response = [s \in Slots |-> NoResponse]
  /\ refreshed = [s \in Slots |-> FALSE]
  /\ sizing = NoSizing
  /\ scanner = "filtering"
  /\ feeds = NoFeeds
  /\ scan = NoScan
  /\ rescan = NoScan
  /\ lookup = NoLookup
  /\ balanceQuery = NoBalanceQuery
  /\ audit = NoAudit
  /\ funds = NoFunds
  /\ auto \in [enabled : {FALSE}, coins : AutoCoinLists]

AutoNext ==
  \/ ToggleAutoTrade
  \/ \E s \in Slots : AutoTradeTick(s)
  \/ \E s \in Slots : ResultArrives(s)
  \/ Tick
  \/ \E s \in Slots, c \in SysCreds, k \in SysCreds : Receive(s, c, k)
  \/ \E s \in Slots, b \in SysBalances : BalanceReturns(s, b)
  \/ \E s \in Slots, o \in SysOutcomes : BuyReturns(s, o)
  \/ \E s \in Slots : SettleDone(s)
  \/ \E s \in Slots, o \in SysOutcomes : SellReturns(s, o)

AutoSpec == AutoInit /\ [][AutoNext]_vars

\* ------------------------------------------------------------ properties
SentAt(s, i, call) == calls[s][i].call = call /\ calls[s][i].phase = "sent"

ReturnedAt(s, i, call) == calls[s][i].call = call /\ calls[s][i].phase = "returned"

SentCount(s, call) == Cardinality({i \in DOMAIN calls[s] : SentAt(s, i, call)})

ReturnedCount(s, call) == Cardinality({i \in DOMAIN calls[s] : ReturnedAt(s, i, call)})

InFlight(s, call) == SentCount(s, call) > ReturnedCount(s, call)

\* the Trade record attempt s put in the list (attempts start in slot order
\* and each puts its record in front)
RecordOf(s) == trades[Len(trades) - s + 1]

Terminal(trade) == trade.status \in {"completed", "failed"}

\* C1: a sell order is sent only after the buy call of the same execution
\* returned with the venue's full success; after every failing buy outcome
\* (network error, timeout, non-2xx, unparsable body, venue error code,
\* missing order id) no sell order is sent and the result is a failure.
SellOnlyAfterBuySuccess ==
  \A s \in Slots :
    /\ \A i \in DOMAIN calls[s] :
         SentAt(s, i, "sell") =>
           \E j \in 1..(i - 1) : ReturnedAt(s, j, "buy") /\ calls[s][j].outcome = "success"
    /\ \A j \in DOMAIN calls[s] :
         (ReturnedAt(s, j, "buy") /\ calls[s][j].outcome # "success" /\ spc[s] = "responded")
           => ~response[s].success /\ ~response[s].sellExecuted

\* C2: a buy order is sent only after the execution obtained a balance of the
\* buy venue that is at or above the floor of 1 USDT.
BuyOnlyAboveBalanceFloor ==
  \A s \in Slots : \A i \in DOMAIN calls[s] :
    SentAt(s, i, "buy") =>
      \E j \in 1..(i - 1) :
        /\ ReturnedAt(s, j, "balance")
        /\ calls[s][j].outcome = "answered"
        /\ calls[s][j].balance >= MIN_BALANCE

\* C3: in every result of execute-trade and in every Trade record of the
\* dashboard, sellExecuted implies buyExecuted.
SellExecutedImpliesBuyExecuted ==
  /\ \A s \in Slots : response[s].sellExecuted => response[s].buyExecuted
  /\ \A i \in DOMAIN trades : trades[i].sellExecuted => trades[i].buyExecuted

\* C3 witness: a Trade record with both legs executed
BothLegsRecorded ==
  \E i \in DOMAIN trades : trades[i].sellExecuted /\ trades[i].buyExecuted

\* C4: the success flag of a result equals buyExecuted and sellExecuted, and
\* a Trade record is completed exactly when both of its flags are true; a
\* record that took a result is completed or failed.
CompletedIffBothLegs ==
  /\ \A s \in Slots :
       spc[s] = "responded" =>
         (response[s].success <=>
            (response[s].hasFlags /\ response[s].buyExecuted /\ response[s].sellExecuted))
  /\ \A i \in DOMAIN trades :
       /\ trades[i].status = "completed" <=> (trades[i].buyExecuted /\ trades[i].sellExecuted)
       /\ trades[i].buyExecuted => Terminal(trades[i])

\* C4 witness: one record completed, or one failed with the buy executed
CompletedAndHalfDoneSeen ==
  \E i \in DOMAIN trades :
    \/ trades[i].status = "completed"
    \/ trades[i].status = "failed" /\ trades[i].buyExecuted /\ ~trades[i].sellExecuted

\* C5: within one execution the balance query returns before the buy order
\* is sent, the buy call returns before the sell order is sent, and a buy and
\* a sell are never in flight together.
LegsInOrder ==
  \A s \in Slots :
    /\ ~(InFlight(s, "buy") /\ InFlight(s, "sell"))
    /\ ~(InFlight(s, "balance") /\ (InFlight(s, "buy") \/ InFlight(s, "sell")))
    /\ \A i \in DOMAIN calls[s] :
         /\ SentAt(s, i, "buy") =>
              /\ \A j \in DOMAIN calls[s] : calls[s][j].call = "balance" => j < i
              /\ route = "part_002" => \E j \in 1..(i - 1) : ReturnedAt(s, j, "balance")
         /\ SentAt(s, i, "sell") =>
              /\ \E j \in 1..(i - 1) : ReturnedAt(s, j, "buy")
              /\ \A j \in DOMAIN calls[s] : calls[s][j].call = "buy" => j < i

\* C5 witness: an execution of part_002 that has sent its sell order
SellSentAfterBalanceAndBuy ==
  /\ route = "part_002"
  /\ \E i \in DOMAIN calls[1] : SentAt(1, i, "sell")

\* C6: one execution sends at most one buy order and at most one sell order,
\* each to the venue the request names, and nothing after a leg failed.
AtMostOneOrderPerLeg ==
  \A s \in Slots :
    /\ SentCount(s, "buy") <= 1
    /\ SentCount(s, "sell") <= 1
    /\ \A i \in DOMAIN calls[s] :
         \/ ReturnedAt(s, i, "sell")
         \/ ReturnedAt(s, i, "buy") /\ ~OrderResult(route, calls[s][i].outcome).success
         => i = Len(calls[s])
    /\ \A i \in DOMAIN calls[s] :
         req[s] # NoReq =>
           /\ SentAt(s, i, "buy") => calls[s][i].venue = req[s].buyExchange
           /\ SentAt(s, i, "sell") => calls[s][i].venue = req[s].sellExchange

\* C6 witness: the buy succeeded, the sell timed out, and the execution answered
BuyDoneSellTimedOut ==
  /\ spc[1] = "responded"
  /\ response[1].buyExecuted /\ ~response[1].sellExecuted
  /\ calls[1] # <<>>
  /\ ReturnedAt(1, Len(calls[1]), "sell")
  /\ calls[1][Len(calls[1])].outcome = "timeout"

\* C7: once a Trade record is completed or failed, no step changes its
\* status, buyExecuted or sellExecuted.
TerminalTradeImmutable ==
  [][\A i \in DOMAIN trades :
       Terminal(trades[i]) =>
         LET j == i + Len(trades') - Len(trades) IN
           /\ trades'[j].status = trades[i].status
           /\ trades'[j].buyExecuted = trades[i].buyExecuted
           /\ trades'[j].sellExecuted = trades[i].sellExecuted]_vars

\* C8: when executeTrade has finished (by result or by exception), the Trade
\* it recorded is completed or failed.
FinishedAttemptIsTerminal ==
  \A s \in Slots : dpc[s] = "done" => Terminal(RecordOf(s))

\* C9: the step that issues the execute-trade request leaves a pending Trade
\* with both flags false and the request's id at the head of the list, and no
\* venue call of that execution has been made.
PendingRecordedBeforeRequest ==
  [][\A s \in Slots :
       (spc[s] = "none" /\ spc'[s] = "received") =>
         /\ Len(trades') = Len(trades) + 1
         /\ trades'[1].id = tradeId'[s]
         /\ trades'[1].status = "pending"
         /\ ~trades'[1].buyExecuted /\ ~trades'[1].sellExecuted
         /\ calls'[s] = <<>>]_vars

\* C9 witness: a request is on its way and its pending Trade heads the list
RequestIssuedWithPendingTrade ==
  \E s \in Slots :
    /\ spc[s] = "received"
    /\ trades # <<>>
    /\ trades[1].id = tradeId[s]
    /\ trades[1].status = "pending"

\* C10: no two Trade records of the list have the same id.
UniqueTradeIds ==
  \A i, j \in DOMAIN trades : i # j => trades[i].id # trades[j].id

\* C11: a buy order that is sent has a notional value (size times price) of
\* at most 90% of the balance, and an order refused for insufficient balance
\* is one for which not even one unit fits into that share.
NotionalWithinBalanceShare ==
  /\ sizing.stage = "sent" =>
        /\ sizing.size > 0
        /\ sizing.size * sizing.price * BALANCE_FRACTION_DEN
             <= sizing.balance * PriceUnitsPerUSDT * BALANCE_FRACTION_NUM
  /\ sizing.stage = "insufficient_balance" =>
        sizing.price * BALANCE_FRACTION_DEN
          > sizing.balance * PriceUnitsPerUSDT * BALANCE_FRACTION_NUM

\* C12: an order is on its way to a venue only when all three credentials of
\* that venue are present, and a leg is reported as a network error only
\* when its request was sent and the call came back.
NoSignedCallWithoutCredentials ==
  \A s \in Slots :
    /\ spc[s] = "buy" => Complete(env[s][req[s].buyExchange])
    /\ spc[s] = "sell" => Complete(env[s][req[s].sellExchange])
    /\ spc[s] = "responded" =>
         /\ response[s].errors.buy = <<"network_error">> =>
              \E i \in DOMAIN calls[s] : ReturnedAt(s, i, "buy")
         /\ response[s].errors.sell = <<"network_error">> =>
              \E i \in DOMAIN calls[s] : ReturnedAt(s, i, "sell")

EveryResponseHasFlagsAndErrors ==
  \A s \in Slots :
    spc[s] = "responded" => response[s].hasFlags /\ response[s].hasErrors

\* C15: when the sell call timed out the answer has buyExecuted true,
\* sellExecuted false and success false, and the sell error is the timeout
\* (a Trade record with these flags is failed);
\* an answer given after the buy call failed (or was never sent) has
\* buyExecuted false, so the two differ in that flag.
SellTimeoutKeepsBuyExecuted ==
  /\ \A i \in DOMAIN trades :
       (trades[i].buyExecuted /\ ~trades[i].sellExecuted) => trades[i].status = "failed"
  /\ \A s \in Slots :
    spc[s] = "responded" =>
      /\ (\E i \in DOMAIN calls[s] : ReturnedAt(s, i, "sell") /\ calls[s][i].outcome = "timeout") =>
           /\ response[s].hasFlags
           /\ response[s].buyExecuted
           /\ ~response[s].sellExecuted
           /\ ~response[s].success
           /\ response[s].errors.sell = <<"timeout">>
      /\ (\/ \A i \in DOMAIN calls[s] : ~SentAt(s, i, "buy")
          \/ \E i \in DOMAIN calls[s] :
               ReturnedAt(s, i, "buy") /\ ~OrderResult(route, calls[s][i].outcome).success)
           => ~response[s].buyExecuted

\* C15 witness: an answer after a sell that timed out, in the route that has
\* a timeout
SellTimedOutAfterBuy ==
  /\ route = "part_002"
  /\ spc[1] = "responded"
  /\ response[1].buyExecuted
  /\ response[1].errors.sell = <<"timeout">>

\* C16: an order result with success = true has an order id.
SuccessHasOrderId ==
  \A s \in Slots : buyResult[s].success => buyResult[s].orderId

\* C17: a leg whose venue call came back with a non-2xx status is reported
\* as http_error, whether or not the body could be parsed.
NonOkStatusIsHttpError ==
  \A s \in Slots : \A i \in DOMAIN calls[s] :
    (/\ spc[s] = "responded"
     /\ calls[s][i].phase = "returned"
     /\ calls[s][i].outcome \in {"http_error", "http_unparsable"}) =>
      /\ calls[s][i].call = "buy" => response[s].errors.buy = <<"http_error">>
      /\ calls[s][i].call = "sell" => response[s].errors.sell = <<"http_error">>

\* C18: the error kind of a leg that failed in its order function is one of
\* the ten kinds of the taxonomy.
ErrorKindsInTaxonomy ==
  LET Taxonomy == {"missing_credentials", "insufficient_balance", "invalid_parameters",
                   "rate_limited", "trading_suspended", "timeout", "network_error",
                   "http_error", "malformed_response", "unknown"}
      InTaxonomy(error) == error = NoError \/ error[1] = "buy_order_failed" \/ error[1] \in Taxonomy
  IN \A s \in Slots :
       spc[s] = "responded" =>
         InTaxonomy(response[s].errors.buy) /\ InTaxonomy(response[s].errors.sell)

\* C19: an execution that has been started answers, even when a venue or
\* the balances route never does.
ExecutionEventuallyResponds ==
  (spc[1] = "received") ~> (spc[1] \in {"responded", "closed"})

\* C20: every opportunity of a scan's list has a profitPercent from 0.5 to
\* 50, a price difference of at least 0.0001 and a net profit above 0.01
\* (its buy price, the lower of the two, is then not above its sell price).
ListedOpportunitiesAreEligible ==
  \A i \in DOMAIN scan.coins :
    LET coin == scan.coins[i] IN
      /\ coin.profitNum * 10 >= MIN_PROFIT_PERCENT_TENTHS * coin.profitDen
      /\ coin.profitNum <= MAX_PROFIT_PERCENT * coin.profitDen
      /\ coin.priceDiff >= MIN_PRICE_DIFF
      /\ coin.hasNetProfit /\ coin.netProfit > MIN_NET_PROFIT * 1000
\* the eligible opportunities of the market a scan looked at, whether listed
\* or not
EligibleOf(f) ==
  {Coin("filtering", i, f[1].last[i], f[2].last[i]) :
     i \in {j \in DOMAIN f[1].last :
              /\ Admitted(f[1].last[j]) /\ Admitted(f[2].last[j])
              /\ isEligible(Coin("filtering", j, f[1].last[j], f[2].last[j]))}}

ListedSymbols(coins) == {coins[i].symbol : i \in DOMAIN coins}

\* a has a strictly higher profitPercent than b
HigherProfit(a, b) == a.profitNum * b.profitDen > b.profitNum * a.profitDen

\* C21: the list a scan returns is ordered by non-increasing profitPercent,
\* holds at most LIST_LIMIT entries, and leaves an eligible opportunity out
\* only when it is full and only if no listed entry has a lower profitPercent
\* than the one left out.
ListIsTopRanked ==
  scan.status = 200 =>
    /\ \A i \in DOMAIN scan.coins : \A j \in DOMAIN scan.coins :
          i < j => ~HigherProfit(scan.coins[j], scan.coins[i])
    /\ Len(scan.coins) <= LIST_LIMIT
    /\ \A c \in EligibleOf(feeds) :
          c.symbol \notin ListedSymbols(scan.coins) =>
            /\ Len(scan.coins) = LIST_LIMIT
            /\ \A i \in DOMAIN scan.coins : ~HigherProfit(c, scan.coins[i])

\* a scan of a market with more eligible opportunities than the list holds:
\* the list is full, and an eligible opportunity was left out that ranks
\* strictly below a listed one standing behind it in the venue's order
FullListLeavesOut ==
  /\ scan.status = 200
  /\ Len(scan.coins) = LIST_LIMIT
  /\ Cardinality(EligibleOf(feeds)) > LIST_LIMIT
  /\ \E c \in EligibleOf(feeds) :
        /\ c.symbol \notin ListedSymbols(scan.coins)
        /\ c.symbol \in {SymbolAt(i) : i \in 1 .. LIST_LIMIT}
        /\ \E i \in DOMAIN scan.coins : HigherProfit(scan.coins[i], c)

\* C22: of two admitted prices p1 <= p2 looked up in the same table, the
\* scanner's or the dashboard's, the lower one never gets the smaller amount.
TradeAmountNonIncreasing ==
  (lookup.a1 # 0 /\ Admitted(lookup.p1) /\ Admitted(lookup.p2) /\ lookup.p1 <= lookup.p2)
    => lookup.a1 >= lookup.a2

\* the dashboard's table was read on the two sides of its breakpoint at 1 USDT
LookedUpAcrossBreakpoint ==
  /\ lookup.table = "dashboard"
  /\ lookup.p1 = 9999 /\ lookup.p2 = 10000
  /\ lookup.a1 = 8 /\ lookup.a2 = 4

\* C23: a second scan of the same price maps returns the same opportunity
\* list as the first: the same entries in the same order, equal in every
\* field.
ScanIsIdempotent ==
  rescan # NoScan => rescan.coins = scan.coins

\* the number of tickers of a venue that enter its price map
Contributed(feed) == Cardinality({i \in DOMAIN feed.last : feed.last[i] \in 1 .. 49999})

\* C24: when exactly one venue gave price data, the scan answers normally
\* with an empty list, with the availability flag of the failing venue false
\* and that of the other true, and with the number of symbols each venue
\* contributed.
OneVenueDownIsReported ==
  (scan # NoScan /\ feeds[1].up # feeds[2].up) =>
    /\ scan.status = 200
    /\ scan.coins = <<>>
    /\ scan.okxAvailable = feeds[1].up
    /\ scan.kucoinAvailable = feeds[2].up
    /\ scan.okxCoinsCount = Contributed(feeds[1])
    /\ scan.kucoinCoinsCount = Contributed(feeds[2])

\* OKX gave no data, KuCoin gave two symbols, and the scan has answered
ScannedWithOkxDown ==
  /\ scan # NoScan
  /\ ~feeds[1].up
  /\ feeds[2].up
  /\ Contributed(feeds[2]) = 2
  /\ scan.kucoinCoinsCount = 2

\* C25: when neither venue gave price data, the scan answers normally (no
\* error status) with an empty list and both availability flags false.
BothVenuesDownIsNormal ==
  (scan # NoScan /\ ~feeds[1].up /\ ~feeds[2].up) =>
    /\ scan.status = 200
    /\ scan.coins = <<>>
    /\ ~scan.okxAvailable
    /\ ~scan.kucoinAvailable

\* the market of the worked example: X quoted at 1.0000 and 1.0100, Y at
\* 0.5000 and 0.5030 (eligible, at a lower profitPercent than X)
ScenarioA ==
  /\ Len(feeds[1].last) = 2
  /\ feeds[1].up /\ feeds[2].up
  /\ {feeds[1].last[1], feeds[2].last[1]} = {10000, 10100}
  /\ {feeds[1].last[2], feeds[2].last[2]} = {5000, 5030}

\* C26: with X quoted at 1.000 and 1.010 and Y eligible at a lower
\* profitPercent, the scan lists X first, sized at 4 units with
\* netProfit = (1.010 - 1.000) * 4 - buyFee - sellFee (0.03196 USDT, above
\* 0.01), and Y behind it.
ScenarioAListsXFirst ==
  (scan # NoScan /\ ScenarioA) =>
    /\ scan.status = 200
    /\ Len(scan.coins) = 2
    /\ scan.coins[1].symbol = "X"
    /\ scan.coins[1].estimatedAmount = 4
    /\ scan.coins[1].netProfit = (10100 - 10000) * 4 * 1000
                                   - 10000 * 4 * FEE_THOUSANDTHS - 10100 * 4 * FEE_THOUSANDTHS
    /\ scan.coins[1].netProfit > MIN_NET_PROFIT * 1000
    /\ scan.coins[2].symbol = "Y"

\* C27: once a trade execution of the dashboard is over, whether its result
\* reported success or failure or the request itself threw, a balance refresh
\* has been triggered for it.
RefreshAfterEveryOutcome ==
  \A s \in Slots : dpc[s] = "done" => refreshed[s]

\* C28: whenever the buy leg of an execution failed, the sell slot of the
\* result's errors holds the "not executed because the buy failed" descriptor
\* followed by the buy leg's own error, and sellExecuted is false.
SkippedSellNamesBuyError ==
  \A s \in Slots :
    (response[s].hasErrors /\ ~response[s].buyExecuted) =>
      /\ ~response[s].sellExecuted
      /\ response[s].errors.sell = <<"buy_order_failed">> \o response[s].errors.buy

\* C29: a balance query that the venue answers with a 2xx status and its
\* success code, but without a USDT balance entry, is reported as a failure,
\* not as a success with a balance of 0.
MissingBalanceEntryIsFailure ==
  (balanceQuery.stage = "answered" /\ balanceQuery.creds = "complete"
     /\ balanceQuery.answer = "no_usdt_entry")
    => ~balanceQuery.success

\* the values one run of an order call must keep to itself: the secret key,
\* the raw passphrase, the request signature and the encoded passphrase
SecretValues(sec) ==
  {<<sec.secretKey>>, <<sec.passphrase>>, createSignature(sec.secretKey),
   createKuCoinPassphraseSignature(sec.passphrase, sec.secretKey)}

\* every value a run wrote to the console or returned to its caller
Shown(r) ==
  UNION {{audit.logs[r][i].atoms[j] : j \in DOMAIN audit.logs[r][i].atoms} :
           i \in DOMAIN audit.logs[r]}
  \cup {audit.results[r].atoms[j] : j \in DOMAIN audit.results[r].atoms}
  \cup {audit.results[r].error}

Acceptable(r) ==
  /\ r.symbol # ""
  /\ r.amount > 0
  /\ r.buyExchange \in Venues
  /\ r.sellExchange \in Venues

\* C31: a trade request with an empty or missing symbol, a zero or negative
\* amount, or an exchange other than OKX and KuCoin is answered with an error
\* before any balance query or order request has been sent.
InvalidRequestRejectedFirst ==
  [][\A s \in Slots :
       (spc[s] = "received" /\ ~Acceptable(req[s]) /\ spc'[s] # "received") =>
         /\ spc'[s] = "responded"
         /\ ~response'[s].success
         /\ calls'[s] = <<>>]_vars

\* C39: a request that names the same venue as buy and as sell exchange is
\* answered with an error before any order is sent, so the two orders of one
\* trade never go to the same venue.
SameVenueRequestRejected ==
  [][\A s \in Slots :
       (spc[s] = "received" /\ Acceptable(req[s])
          /\ req[s].buyExchange = req[s].sellExchange /\ spc'[s] # "received") =>
         /\ spc'[s] = "responded"
         /\ ~response'[s].success
         /\ \A i \in DOMAIN calls'[s] : calls'[s][i].call \notin {"buy", "sell"}]_vars

\* the balance of its buy venue an execution read before its buy order
BalanceReadBy(s) ==
  {calls[s][i].balance : i \in {j \in DOMAIN calls[s] : ReturnedAt(s, j, "balance")}}

\* the buy orders an execution has sent, as <<venue, size>>
BuysSentBy(s) ==
  {<<calls[s][i].venue, calls[s][i].size>> : i \in {j \in DOMAIN calls[s] : SentAt(s, j, "buy")}}

\* C32: two executions that buy on the same venue never both dispatch a buy
\* order after reading the same balance when that balance covers only one of
\* the two orders.
NoDoubleDispatchOnOneBalance ==
  \A s \in Slots : \A t \in Slots :
    s # t =>
      \A bs \in BuysSentBy(s) : \A bt \in BuysSentBy(t) : \A b \in BalanceReadBy(s) :
        (bs[1] = bt[1] /\ b \in BalanceReadBy(t)) => bs[2] + bt[2] <= b

\* C33: a sell order is sent only by the step in which the settlement timer
\* fires: while POST waits out the delay after a successful buy no sell
\* request leaves, and no other step sends one.
SellOnlyWhenDelayElapsed ==
  [][\A s \in Slots :
       (\E i \in DOMAIN calls'[s] :
          /\ i > Len(calls[s])
          /\ calls'[s][i].call = "sell" /\ calls'[s][i].phase = "sent")
       => /\ spc[s] = "settle"
          /\ buyResult[s].success
          /\ SentCount(s, "sell") = 0]_vars

\* the timer has fired after a successful buy and the sell order is in flight
SellSentAfterDelay ==
  \E s \in Slots :
    /\ spc[s] = "sell"
    /\ buyResult[s].success
    /\ SentCount(s, "sell") = 1
    /\ calls[s][Len(calls[s])].call = "sell"

\* C34: with a balance of at least MIN_BALANCE, the order function either
\* sends the buy order with exactly the requested size or refuses it for
\* insufficient balance; it never sends a reduced positive size.
BuySizeIsRequestedAmount ==
  (sizing.stage \notin {"none", "requested"} /\ sizing.amount > 0
     /\ sizing.balance >= MIN_BALANCE) =>
    \/ sizing.stage = "sent" /\ sizing.size = sizing.amount
    \/ sizing.stage = "insufficient_balance" /\ sizing.size = 0
         /\ MaxAmount(sizing.balance, sizing.amount) <= 0

\* a buy order went out at its requested size although 90% of the balance
\* is not a multiple of it
SentUnchangedWithUnevenBalance ==
  /\ sizing.stage = "sent"
  /\ sizing.amount = 4
  /\ sizing.balance = 10
  /\ MaxAmount(sizing.balance, sizing.amount) = 8
  /\ sizing.size = 4

\* C35: whenever both orders of a trade were sent, the sell order has the
\* size of the buy order that was sent.
SellSizeEqualsBuySize ==
  \A s \in Slots : \A i \in DOMAIN calls[s] : \A j \in DOMAIN calls[s] :
    (SentAt(s, i, "buy") /\ SentAt(s, j, "sell")) => calls[s][j].size = calls[s][i].size

\* part_002 sent a buy order sized against a balance of 5 USDT and then the
\* sell order
BothLegsSentAfterSizing ==
  \E s \in Slots :
    /\ route = "part_002"
    /\ \E i \in DOMAIN calls[s] : ReturnedAt(s, i, "balance") /\ calls[s][i].balance = 5
    /\ \E i \in DOMAIN calls[s] : SentAt(s, i, "buy") /\ calls[s][i].size = 4
    /\ \E j \in DOMAIN calls[s] : SentAt(s, j, "sell") /\ calls[s][j].size = 4

\* C36: when the balance query before a trade failed (the fetch threw, or
\* the buy venue's entry has success = false), the buy venue's balance is
\* taken as 0 and the trade is rejected with insufficient_balance without a
\* buy or sell order having been sent.
FailedBalanceQueryRejectsTrade ==
  \A s \in Slots : \A i \in DOMAIN calls[s] :
    (ReturnedAt(s, i, "balance") /\ calls[s][i].outcome = "failed") =>
      /\ calls[s][i].balance = 0
      /\ spc[s] = "responded"
      /\ ~response[s].success
      /\ response[s].errorType = "insufficient_balance"
      /\ SentCount(s, "buy") = 0
      /\ SentCount(s, "sell") = 0

\* POST has answered a request whose balance query failed
RejectedAfterFailedBalanceQuery ==
  \E s \in Slots :
    /\ spc[s] = "responded"
    /\ response[s].errorType = "insufficient_balance"
    /\ \E i \in DOMAIN calls[s] : ReturnedAt(s, i, "balance") /\ calls[s][i].outcome = "failed"

\* C37: under auto-trade at most one Trade is pending at any time.
AtMostOnePendingUnderAutoTrade ==
  auto.enabled =>
    Cardinality({i \in DOMAIN trades : trades[i].status = "pending"}) <= 1

\* C38: every opportunity the scanner lists as eligible passes the profit
\* check of the dashboard's executeTrade (netProfit recomputed with the
\* dashboard's trade-amount table is above 0.01) and is traded at the amount
\* the scanner estimated.
ListedPassesDashboardCheck ==
  scanner = "filtering" =>
    \A i \in DOMAIN scan.coins :
      LET coin == scan.coins[i]
          buyPrice == IF coin.okxPrice < coin.kucoinPrice THEN coin.okxPrice
                                                          ELSE coin.kucoinPrice
      IN /\ PassesProfitCheck(coin)
         /\ getTradeAmount(buyPrice) = coin.estimatedAmount

\* C40: when an execution attempt applies its outcome to the Trade list
\* (the result of execute-trade, or the error caught instead), every Trade
\* record other than the one of that attempt stays as it was.
ResultChangesOnlyItsTrade ==
  [][\A s \in Slots :
       (dpc[s] = "awaiting" /\ dpc'[s] = "done") =>
         /\ Len(trades') = Len(trades)
         /\ \A i \in DOMAIN trades :
              i # Len(trades) - s + 1 => trades'[i] = trades[i]]_vars

====
